---- MODULE Spec2Model ----
(***************************************************************************)
(* github-notifyd: the polling-and-dispatch pipeline of github-notifyd.c.  *)
(*                                                                         *)
(* The program is single threaded: main() negotiates with the notification *)
(* server and registers check_github_notifications as a timer callback of  *)
(* the GLib main loop.  One run of the callback is a tick; its position is *)
(* pc.  Remote servers (the feed, the enrichment URLs, the avatar host)    *)
(* are the environment: every response is drawn from a small set.          *)
(***************************************************************************)
EXTENDS Integers, Sequences, FiniteSets, TLC

(* ------------------------------ bounds --------------------------------- *)

\* longest feed array a 200 response carries
MaxFeed == 2

\* how many times the feed changes at the remote server
MaxChanges == 1

(* ------------------------- program constants --------------------------- *)

RESPONSE_CODE_OK == 200
RESPONSE_CODE_NOT_MODIFIED == 304
RESPONSE_CODE_UNAUTHORIZED == 401
MIN_INTERVAL == 45

SUMMARY == "You have received a new GitHub Notification"
AUTH_ERROR_MSG == "'github-notifyd' authorization error - please check access token value"
UNDEF_ERROR_MSG == "'github-notifyd' undefinded error - please check the logs for more information"

BODY == "body"
BODY_HYPERLINKS == "body-hyperlinks"
BODY_MARKUP == "body-markup"
PERSISTENCE == "persistence"

TAG_BOLD == "<b>"
TAG_BOLD_END == "</b>"

(* ------------------------------- JSON ---------------------------------- *)

\* the C NULL pointer (a json_t* or a char* that points nowhere)
NULL == [t |-> "NULL"]

JStr(s) == [t |-> "string", s |-> s]
JNum(n) == [t |-> "number", n |-> n]
JObj(o) == [t |-> "object", o |-> o]
JArr(a) == [t |-> "array", a |-> a]

\* a pointer test: p == NULL
IsNull(p) == "t" \in DOMAIN p /\ p.t = "NULL"

json_is_object(j) == j.t = "object"
json_is_string(j) == j.t = "string"
json_is_number(j) == j.t = "number"
json_is_array(j) == j.t = "array"

\* jansson: NULL when j is no object or has no such key
json_object_get(j, key) ==
  IF json_is_object(j) /\ key \in DOMAIN j.o THEN j.o[key] ELSE NULL

\* a response body: text that decodes to the document doc, or text that does not decode
Text(j) == [valid |-> TRUE, doc |-> j]
BadText == [valid |-> FALSE, doc |-> NULL]

json_loads(text) == IF text.valid THEN text.doc ELSE NULL

\* helpers to build the inputs: an object without a key, an object with a key replaced
Drop(j, key) == JObj([k \in (DOMAIN j.o) \ {key} |-> j.o[k]])
Put(j, key, v) == JObj([k \in (DOMAIN j.o) \cup {key} |-> IF k = key THEN v ELSE j.o[k]])

(* ------------------------ inputs: the feed ----------------------------- *)

\* subject and repository of a well-formed feed element
SubjA == JObj([type |-> JStr("PullRequest"), title |-> JStr("Fix bug"),
               latest_comment_url |-> JStr("U")])
RepoA == JObj([name |-> JStr("r"), html_url |-> JStr("http://x")])
ElemA == JObj([reason |-> JStr("mention"), subject |-> SubjA, repository |-> RepoA])

SubjB == JObj([type |-> JStr("Issue"), title |-> JStr("Crash"),
               latest_comment_url |-> JStr("V")])
RepoB == JObj([name |-> JStr("s"), html_url |-> JStr("http://y")])
ElemB == JObj([reason |-> JStr("subscribed"), subject |-> SubjB, repository |-> RepoB])

\* an element whose title is the empty string: a JSON string all the same
ElemE == Put(ElemA, "subject", Put(SubjA, "title", JStr("")))

GoodElems == {ElemA, ElemB}

\* one element for each way a record can be malformed: a missing key or a value
\* of the wrong type at each place the extraction looks
BadElems ==
  { JStr("not an object"),
    Drop(ElemA, "reason"),
    Put(ElemA, "subject", JStr("no object")),
    Put(ElemA, "subject", Drop(SubjA, "type")),
    Put(ElemA, "subject", Put(SubjA, "title", JNum(1))),
    Drop(ElemA, "repository"),
    Put(ElemA, "repository", Put(RepoA, "name", JNum(2))),
    Put(ElemA, "repository", Drop(RepoA, "html_url")),
    Put(ElemA, "subject", Drop(SubjA, "latest_comment_url")) }

Elems == GoodElems \cup BadElems

Arrays == UNION { [1..n -> Elems] : n \in 0..MaxFeed }

\* the bodies a feed response carries: every array, text that does not decode,
\* and a document whose root is no array
FeedBodies == { Text(JArr(a)) : a \in Arrays } \cup { BadText, Text(ElemA) }

\* Last-Modified as curl reports it (CURLINFO_FILETIME): -1 when unknown
FileTimes == {-1, 1}

\* HTTP status codes of the responses
ErrorStatuses == {RESPONSE_CODE_UNAUTHORIZED, 500}

\* a completed transfer
Resp(status, body, filetime) ==
  [ok |-> TRUE, status |-> status, body |-> body, filetime |-> filetime]

\* curl_easy_init or curl_easy_perform failed: transport failure or timeout
Failed == [ok |-> FALSE, status |-> 0, body |-> BadText, filetime |-> -1]

FeedResponses ==
  {Failed}
  \cup { Resp(RESPONSE_CODE_OK, b, ft) : b \in FeedBodies, ft \in FileTimes }
  \cup { Resp(RESPONSE_CODE_NOT_MODIFIED, BadText, -1) }
  \cup { Resp(s, b, -1) : s \in ErrorStatuses, b \in {BadText, Text(JArr(<<ElemA>>))} }

(* --------------------- inputs: the enrichment URL ---------------------- *)

UserA == JObj([login |-> JStr("alice"), id |-> JNum(7), avatar_url |-> JStr("http://a")])
CommentA == JObj([user |-> UserA, body |-> JStr("LGTM")])

EnrichBodies ==
  { Text(CommentA),
    BadText,
    Text(JArr(<<CommentA>>)),
    Text(Drop(CommentA, "user")),
    Text(Put(CommentA, "user", JStr("alice"))),
    Text(Put(CommentA, "user", Drop(UserA, "login"))),
    Text(Put(CommentA, "user", Put(UserA, "login", JNum(3)))),
    Text(Put(CommentA, "user", Drop(UserA, "id"))),
    Text(Put(CommentA, "user", Put(UserA, "id", JStr("7")))),
    Text(Put(CommentA, "user", Drop(UserA, "avatar_url"))),
    Text(Put(CommentA, "user", Put(UserA, "avatar_url", JNum(4)))) }

EnrichResponses ==
  {Failed}
  \cup { Resp(RESPONSE_CODE_OK, b, -1) : b \in EnrichBodies }
  \cup { Resp(RESPONSE_CODE_NOT_MODIFIED, BadText, -1) }
  \cup { Resp(s, Text(CommentA), -1) : s \in ErrorStatuses }

\* no enrichment fetch was issued
NoResp == [ok |-> FALSE, status |-> -1, body |-> BadText, filetime |-> -1]

\* the value an uninitialised glong may hold
Garbage == {0, RESPONSE_CODE_OK, RESPONSE_CODE_NOT_MODIFIED, RESPONSE_CODE_UNAUTHORIZED, 500}

(* ---------------------- inputs: startup ------------------------------- *)

\* what g_option_context_parse stores for a command line
CmdLine(ok, na, pe, iv) ==
  [parse_ok |-> ok, no_avatar |-> na, persistent |-> pe, interval |-> iv]

\* a notification server: the capability list it advertises and its identity
Server(caps, info_ok, n, ve, vs) ==
  [caps |-> caps, info_ok |-> info_ok, name |-> n, vendor |-> ve, version |-> vs]

CapNames == {BODY, BODY_HYPERLINKS, BODY_MARKUP, PERSISTENCE}

\* the list a server advertising the capabilities S (and "actions") returns
CapList(S) ==
  SelectSeq(<<"actions", BODY, BODY_HYPERLINKS, BODY_MARKUP, PERSISTENCE>>,
            LAMBDA c : c = "actions" \/ c \in S)

(* ---------------------------- the state -------------------------------- *)

VARIABLES
  opt_no_avatar, opt_persistent, opt_interval,   \* command line options
  server_caps,                                   \* capability vector
  name, vendor, version,                         \* notification server identity
  last_mod,                                      \* staleness marker
  tmp_files,                                     \* /tmp/ID.png: the avatar cache
  pc,                                            \* position of the program
  exit_value,                                    \* exit code of main
  return_code, curl_response, json_root,         \* locals of
  json_cnt, notifications_list,                  \*   check_github_notifications
  feed,        \* history: the response to this tick's feed fetch
  enrich,      \* history: the response to the latest iteration's enrichment fetch
  avatar,      \* history: what the latest iteration did about the avatar
  fetches,     \* history: enrichment fetches issued in this tick
  enrich_bad,  \* history: those of them not answered 200 with a complete user
  diags,       \* history: 'invalid notification' diagnostics logged in this tick
  rendered,    \* history: notifications handed to show_notification in this tick
  events,      \* history: events shown by the notification server in this tick
  unfreed,     \* history: notification structs this tick allocated and has not freed
  configured,  \* history: the polling interval the command line gave
  negotiated,  \* history: the capability vector as startup negotiated it
  timer,       \* the timeout source of the main loop: "none", "armed" or "due"
  sigint,      \* a SIGINT has arrived and its handler has not run yet
  upstream,    \* Last-Modified time of the feed at the remote server
  owed,        \* history: repositories of the records dropped for a failed
               \*   enrichment and not appended since
  iterations,  \* history: what each iteration of this tick met and did
  past,        \* history: repositories of the records earlier ticks appended
  stamp        \* history: the Last-Modified time of the latest 200 feed response

config == <<opt_no_avatar, opt_persistent, opt_interval, name, vendor, version>>
locals == <<return_code, curl_response, json_root, json_cnt, notifications_list>>
history == <<feed, enrich, avatar, fetches, enrich_bad, diags, rendered, events, unfreed>>
given == <<configured, negotiated>>
outside == <<sigint, upstream>>
memo == <<iterations, past, stamp>>
vars == <<config, server_caps, last_mod, tmp_files, pc, exit_value, locals, history,
          given, timer, outside, owed, memo>>

\* user ids whose avatar file the model tracks
AvatarIds == {7}

\* a char* that is NULL
NullStr == "(null)"

NoCaps == [body |-> FALSE, body_hyperlinks |-> FALSE, body_markup |-> FALSE,
           persistence |-> FALSE]

\* static initialisation of the globals, before main runs
Init ==
  /\ opt_no_avatar = FALSE
  /\ opt_persistent = FALSE
  /\ opt_interval = 45
  /\ server_caps = NoCaps
  /\ name = NullStr /\ vendor = NullStr /\ version = NullStr
  /\ last_mod = 0
  /\ tmp_files = [i \in AvatarIds |-> "absent"]
  /\ pc = "start"
  /\ exit_value = 0
  /\ return_code = 0
  /\ curl_response = NULL
  /\ json_root = NULL
  /\ json_cnt = 0
  /\ notifications_list = <<>>
  /\ feed = NoResp
  /\ enrich = NoResp
  /\ avatar = "none"
  /\ fetches = 0
  /\ enrich_bad = 0
  /\ diags = 0
  /\ rendered = <<>>
  /\ events = <<>>
  /\ unfreed = 0
  /\ configured = 45
  /\ negotiated = NoCaps
  /\ timer = "none"
  /\ sigint = FALSE
  /\ upstream = 1
  /\ owed = {}
  /\ iterations = <<>>
  /\ past = {}
  /\ stamp = 0

(* ------------------------------ startup -------------------------------- *)

\* one call of the g_list_foreach callback
set_server_caps(data, caps) ==
  [body            |-> caps.body \/ data = BODY,
   body_hyperlinks |-> caps.body_hyperlinks \/ data = BODY_HYPERLINKS,
   body_markup     |-> caps.body_markup \/ data = BODY_MARKUP,
   persistence     |-> caps.persistence \/ data = PERSISTENCE]

RECURSIVE foreach_set_server_caps(_, _)
foreach_set_server_caps(list, caps) ==
  IF list = <<>> THEN caps
  ELSE foreach_set_server_caps(Tail(list), set_server_caps(Head(list), caps))

(* A 32-bit unsigned value is written as the signed integer with the same   *)
(* bits (a parsed gint stored into the guint opt_interval, a guint32 printed  *)
(* with %d): a negative number stands for a value of 2^31 or more.           *)
ULess(a, b) == IF a < 0 THEN b < 0 /\ a < b ELSE b < 0 \/ a < b

\* the polling interval the timer is registered with
ClampInterval(iv) == IF ULess(iv, MIN_INTERVAL) THEN MIN_INTERVAL ELSE iv

Main(cmd, srv) ==
  /\ pc = "start"
  /\ IF ~cmd.parse_ok
     THEN /\ pc' = "exited" /\ exit_value' = 1
          /\ UNCHANGED <<config, server_caps, given, timer>>
     ELSE /\ opt_no_avatar' = cmd.no_avatar
          /\ opt_persistent' = cmd.persistent
          /\ configured' = cmd.interval
          /\ IF srv.caps = <<>>
             THEN /\ pc' = "exited" /\ exit_value' = 1
                  /\ opt_interval' = cmd.interval
                  /\ UNCHANGED <<server_caps, name, vendor, version, negotiated, timer>>
             ELSE /\ server_caps' = foreach_set_server_caps(srv.caps, server_caps)
                  /\ negotiated' = server_caps'
                  /\ IF ~srv.info_ok
                     THEN /\ pc' = "exited" /\ exit_value' = 1
                          /\ opt_interval' = cmd.interval
                          /\ UNCHANGED <<name, vendor, version, timer>>
                     ELSE /\ name' = srv.name
                          /\ vendor' = srv.vendor
                          /\ version' = srv.version
                          /\ opt_interval' = ClampInterval(cmd.interval)
                          /\ timer' = "armed"
                          /\ pc' = "idle"
                          /\ UNCHANGED exit_value
  /\ UNCHANGED <<last_mod, tmp_files, locals, history, outside, owed, memo>>

(* ------------------------------ fetcher -------------------------------- *)

\* curl_request with the Last-Modified value read on a 304 as well
curl_request_304(pass_ifmodsince, resp, code, lm) ==
  IF ~resp.ok
  THEN [ret |-> NULL, code |-> code, last_mod |-> lm]
  ELSE IF resp.status # RESPONSE_CODE_OK /\ resp.status # RESPONSE_CODE_NOT_MODIFIED
  THEN [ret |-> NULL, code |-> resp.status, last_mod |-> lm]
  ELSE IF pass_ifmodsince
  THEN IF resp.status # RESPONSE_CODE_NOT_MODIFIED
       THEN [ret |-> resp.body, code |-> resp.status, last_mod |-> resp.filetime]
       ELSE [ret |-> NULL, code |-> resp.status, last_mod |-> resp.filetime]
  ELSE [ret |-> resp.body, code |-> resp.status, last_mod |-> lm]

\* curl_request with the Last-Modified value read whatever pass_ifmodsince is
curl_request_always(pass_ifmodsince, resp, code, lm) ==
  IF ~resp.ok
  THEN [ret |-> NULL, code |-> code, last_mod |-> lm]
  ELSE IF resp.status # RESPONSE_CODE_OK /\ resp.status # RESPONSE_CODE_NOT_MODIFIED
  THEN [ret |-> NULL, code |-> resp.status, last_mod |-> lm]
  ELSE IF resp.status = RESPONSE_CODE_NOT_MODIFIED /\ pass_ifmodsince
  THEN [ret |-> NULL, code |-> resp.status, last_mod |-> lm]
  ELSE [ret |-> resp.body, code |-> resp.status, last_mod |-> resp.filetime]

\* curl_request with the Last-Modified value never read
curl_request_stale(pass_ifmodsince, resp, code, lm) ==
  IF ~resp.ok
  THEN [ret |-> NULL, code |-> code, last_mod |-> lm]
  ELSE IF resp.status # RESPONSE_CODE_OK /\ resp.status # RESPONSE_CODE_NOT_MODIFIED
  THEN [ret |-> NULL, code |-> resp.status, last_mod |-> lm]
  ELSE IF pass_ifmodsince
  THEN IF resp.status # RESPONSE_CODE_NOT_MODIFIED
       THEN [ret |-> resp.body, code |-> resp.status, last_mod |-> lm]
       ELSE [ret |-> NULL, code |-> resp.status, last_mod |-> lm]
  ELSE [ret |-> resp.body, code |-> resp.status, last_mod |-> lm]

\* curl_request: resp is what the network does, code the caller's glong before
\* the call, lm the marker before the call.  ret is the returned body or NULL.
curl_request(pass_ifmodsince, resp, code, lm) ==
  IF ~resp.ok
  THEN [ret |-> NULL, code |-> code, last_mod |-> lm]
  ELSE IF resp.status # RESPONSE_CODE_OK /\ resp.status # RESPONSE_CODE_NOT_MODIFIED
  THEN [ret |-> NULL, code |-> resp.status, last_mod |-> lm]
  ELSE IF pass_ifmodsince
  THEN IF resp.status # RESPONSE_CODE_NOT_MODIFIED
       THEN [ret |-> resp.body, code |-> resp.status, last_mod |-> resp.filetime]
       ELSE [ret |-> NULL, code |-> resp.status, last_mod |-> lm]
  ELSE [ret |-> resp.body, code |-> resp.status, last_mod |-> lm]

\* "/tmp/%d.png" of a guint32
PathOf(id) == <<"/tmp/", id, ".png">>

\* prepare_avatar returning the path also when the download failed
prepare_avatar_path(id, dl, files) ==
  IF files[id] = "absent"
  THEN IF dl
       THEN [ret |-> PathOf(id), files |-> [files EXCEPT ![id] = "complete"], did |-> "ok"]
       ELSE [ret |-> PathOf(id), files |-> [files EXCEPT ![id] = "partial"], did |-> "fail"]
  ELSE [ret |-> PathOf(id), files |-> files, did |-> "cached"]

\* prepare_avatar: dl tells whether the download succeeds.  ret is the path, or
\* <<>> for NULL.
prepare_avatar(id, dl, files) ==
  IF files[id] = "absent"
  THEN IF dl
       THEN [ret |-> PathOf(id), files |-> [files EXCEPT ![id] = "complete"], did |-> "ok"]
       ELSE [ret |-> <<>>, files |-> [files EXCEPT ![id] = "partial"], did |-> "fail"]
  ELSE [ret |-> PathOf(id), files |-> files, did |-> "cached"]

(* ------------------------------ renderer ------------------------------- *)

\* what a run of g_string_append_printf appends: the pieces that are not empty
Printf(parts) == SelectSeq(parts, LAMBDA x : x # "")

\* show_notification without the block that empties the bold tags
show_notification_bold(notif, caps, n, ve, vs, persistent) ==
  LET bold     == TAG_BOLD
      bold_end == TAG_BOLD_END
      newline  == IF n = "Plasma" /\ ve = "KDE" /\ vs = "1.0" THEN "<br/>" ELSE "\n"
      caps2    == IF n = "Xfce Notify Daemon" /\ ve = "Xfce"
                  THEN [caps EXCEPT !.body_hyperlinks = FALSE]
                  ELSE caps
      text     == Printf(<<bold, "Repository:", bold_end, "\t ", notif.repository, newline>>)
                  \o Printf(<<bold, "Type:", bold_end, "\t\t ", notif.type, newline>>)
                  \o Printf(<<bold, "Title:", bold_end, "\t\t ", notif.title, newline>>)
                  \o Printf(<<bold, "User:", bold_end, "\t\t ", notif.user>>)
      link     == Printf(<<newline, bold, "Link:", bold_end, "\t\t ", "<a href=",
                           notif.repository_url, ">Link to Repository</a>">>)
      body     == IF caps2.body
                  THEN IF caps2.body_hyperlinks THEN text \o link ELSE text
                  ELSE <<>>
  IN [event |-> [summary |-> SUMMARY, body |-> body, icon |-> notif.user_avatar,
                 urgency |-> "normal", timeout |-> "default",
                 transient |-> ~persistent],
      caps |-> caps2]

\* show_notification with the hyperlink test made before the Xfce exception is applied
show_notification_late(notif, caps, n, ve, vs, persistent) ==
  LET bold     == IF ~caps.body_markup THEN "" ELSE TAG_BOLD
      bold_end == IF ~caps.body_markup THEN "" ELSE TAG_BOLD_END
      newline  == IF n = "Plasma" /\ ve = "KDE" /\ vs = "1.0" THEN "<br/>" ELSE "\n"
      caps2    == IF n = "Xfce Notify Daemon" /\ ve = "Xfce"
                  THEN [caps EXCEPT !.body_hyperlinks = FALSE]
                  ELSE caps
      text     == Printf(<<bold, "Repository:", bold_end, "\t ", notif.repository, newline>>)
                  \o Printf(<<bold, "Type:", bold_end, "\t\t ", notif.type, newline>>)
                  \o Printf(<<bold, "Title:", bold_end, "\t\t ", notif.title, newline>>)
                  \o Printf(<<bold, "User:", bold_end, "\t\t ", notif.user>>)
      link     == Printf(<<newline, bold, "Link:", bold_end, "\t\t ", "<a href=",
                           notif.repository_url, ">Link to Repository</a>">>)
      body     == IF caps2.body
                  THEN IF caps.body_hyperlinks THEN text \o link ELSE text
                  ELSE <<>>
  IN [event |-> [summary |-> SUMMARY, body |-> body, icon |-> notif.user_avatar,
                 urgency |-> "normal", timeout |-> "default",
                 transient |-> ~persistent],
      caps |-> caps2]

\* show_notification with the <br/> exception taken for every version of Plasma/KDE
show_notification_anyversion(notif, caps, n, ve, vs, persistent) ==
  LET bold     == IF ~caps.body_markup THEN "" ELSE TAG_BOLD
      bold_end == IF ~caps.body_markup THEN "" ELSE TAG_BOLD_END
      newline  == IF n = "Plasma" /\ ve = "KDE" THEN "<br/>" ELSE "\n"
      caps2    == IF n = "Xfce Notify Daemon" /\ ve = "Xfce"
                  THEN [caps EXCEPT !.body_hyperlinks = FALSE]
                  ELSE caps
      text     == Printf(<<bold, "Repository:", bold_end, "\t ", notif.repository, newline>>)
                  \o Printf(<<bold, "Type:", bold_end, "\t\t ", notif.type, newline>>)
                  \o Printf(<<bold, "Title:", bold_end, "\t\t ", notif.title, newline>>)
                  \o Printf(<<bold, "User:", bold_end, "\t\t ", notif.user>>)
      link     == Printf(<<newline, bold, "Link:", bold_end, "\t\t ", "<a href=",
                           notif.repository_url, ">Link to Repository</a>">>)
      body     == IF caps2.body
                  THEN IF caps2.body_hyperlinks THEN text \o link ELSE text
                  ELSE <<>>
  IN [event |-> [summary |-> SUMMARY, body |-> body, icon |-> notif.user_avatar,
                 urgency |-> "normal", timeout |-> "default",
                 transient |-> ~persistent],
      caps |-> caps2]

\* show_notification with the hyperlink exception taken whatever the vendor is
show_notification_anyvendor(notif, caps, n, ve, vs, persistent) ==
  LET bold     == IF ~caps.body_markup THEN "" ELSE TAG_BOLD
      bold_end == IF ~caps.body_markup THEN "" ELSE TAG_BOLD_END
      newline  == IF n = "Plasma" /\ ve = "KDE" /\ vs = "1.0" THEN "<br/>" ELSE "\n"
      caps2    == IF n = "Xfce Notify Daemon"
                  THEN [caps EXCEPT !.body_hyperlinks = FALSE]
                  ELSE caps
      text     == Printf(<<bold, "Repository:", bold_end, "\t ", notif.repository, newline>>)
                  \o Printf(<<bold, "Type:", bold_end, "\t\t ", notif.type, newline>>)
                  \o Printf(<<bold, "Title:", bold_end, "\t\t ", notif.title, newline>>)
                  \o Printf(<<bold, "User:", bold_end, "\t\t ", notif.user>>)
      link     == Printf(<<newline, bold, "Link:", bold_end, "\t\t ", "<a href=",
                           notif.repository_url, ">Link to Repository</a>">>)
      body     == IF caps2.body
                  THEN IF caps2.body_hyperlinks THEN text \o link ELSE text
                  ELSE <<>>
  IN [event |-> [summary |-> SUMMARY, body |-> body, icon |-> notif.user_avatar,
                 urgency |-> "normal", timeout |-> "default",
                 transient |-> ~persistent],
      caps |-> caps2]

\* show_notification: the event shown and the capability vector it leaves behind
show_notification(notif, caps, n, ve, vs, persistent) ==
  LET bold     == IF ~caps.body_markup THEN "" ELSE TAG_BOLD
      bold_end == IF ~caps.body_markup THEN "" ELSE TAG_BOLD_END
      newline  == IF n = "Plasma" /\ ve = "KDE" /\ vs = "1.0" THEN "<br/>" ELSE "\n"
      caps2    == IF n = "Xfce Notify Daemon" /\ ve = "Xfce"
                  THEN [caps EXCEPT !.body_hyperlinks = FALSE]
                  ELSE caps
      text     == Printf(<<bold, "Repository:", bold_end, "\t ", notif.repository, newline>>)
                  \o Printf(<<bold, "Type:", bold_end, "\t\t ", notif.type, newline>>)
                  \o Printf(<<bold, "Title:", bold_end, "\t\t ", notif.title, newline>>)
                  \o Printf(<<bold, "User:", bold_end, "\t\t ", notif.user>>)
      link     == Printf(<<newline, bold, "Link:", bold_end, "\t\t ", "<a href=",
                           notif.repository_url, ">Link to Repository</a>">>)
      body     == IF caps2.body
                  THEN IF caps2.body_hyperlinks THEN text \o link ELSE text
                  ELSE <<>>
  IN [event |-> [summary |-> SUMMARY, body |-> body, icon |-> notif.user_avatar,
                 urgency |-> "normal", timeout |-> "default",
                 transient |-> ~persistent],
      caps |-> caps2]

\* g_list_foreach (notifications_list, show_notification, NULL)
RECURSIVE foreach_show_notification(_, _, _, _, _, _)
foreach_show_notification(list, caps, n, ve, vs, persistent) ==
  IF list = <<>> THEN [events |-> <<>>, caps |-> caps]
  ELSE LET one  == show_notification(Head(list), caps, n, ve, vs, persistent)
           rest == foreach_show_notification(Tail(list), one.caps, n, ve, vs, persistent)
       IN [events |-> <<one.event>> \o rest.events, caps |-> rest.caps]

\* the error label without the test for 401
error_notification_generic(code) ==
  [summary |-> UNDEF_ERROR_MSG,
   body |-> <<>>, icon |-> <<>>, urgency |-> "critical", timeout |-> "default",
   transient |-> FALSE]

\* the event of the error label for a return code
error_notification(code) ==
  [summary |-> IF code = RESPONSE_CODE_UNAUTHORIZED THEN AUTH_ERROR_MSG ELSE UNDEF_ERROR_MSG,
   body |-> <<>>, icon |-> <<>>, urgency |-> "critical", timeout |-> "default",
   transient |-> FALSE]

(* ---------------------- one iteration of the loop ---------------------- *)

\* the required fields of a feed element, read in the order of the code; ok is
\* FALSE where the code takes goto skip before the enrichment fetch
ExtractRecord(e) ==
  LET reason     == json_object_get(e, "reason")
      subject    == json_object_get(e, "subject")
      type       == json_object_get(subject, "type")
      title      == json_object_get(subject, "title")
      repository == json_object_get(e, "repository")
      rname      == json_object_get(repository, "name")
      html_url   == json_object_get(repository, "html_url")
      url        == json_object_get(subject, "latest_comment_url")
      no         == [ok |-> FALSE]
  IN IF ~json_is_object(e) THEN no
     ELSE IF ~json_is_string(reason) THEN no
     ELSE IF ~json_is_object(subject) THEN no
     ELSE IF ~json_is_string(type) THEN no
     ELSE IF ~json_is_string(title) THEN no
     ELSE IF ~json_is_object(repository) THEN no
     ELSE IF ~json_is_string(rname) THEN no
     ELSE IF ~json_is_string(html_url) THEN no
     ELSE IF ~json_is_string(url) THEN no
     ELSE [ok |-> TRUE, reason |-> reason.s, type |-> type.s, title |-> title.s,
           repository |-> rname.s, repository_url |-> html_url.s, url |-> url.s]

\* ResolveUser with the avatar_url read when avatars are switched off
ResolveUser_flipped(local_root, dl, no_avatar, files) ==
  LET user       == json_object_get(local_root, "user")
      login      == json_object_get(user, "login")
      id         == json_object_get(user, "id")
      avatar_url == json_object_get(user, "avatar_url")
      no         == [ok |-> FALSE, files |-> files, avatar |-> "none"]
  IN IF ~json_is_object(user) THEN no
     ELSE IF ~json_is_string(login) THEN no
     ELSE IF ~json_is_number(id) THEN no
     ELSE IF no_avatar
          THEN IF json_is_string(avatar_url)
               THEN [ok |-> TRUE, user |-> login.s, user_avatar |-> <<>>,
                     files |-> files, avatar |-> "none"]
               ELSE no
          ELSE LET pa == prepare_avatar(id.n, dl, files)
               IN [ok |-> TRUE, user |-> login.s,
                   user_avatar |-> IF json_is_string(avatar_url) THEN pa.ret ELSE <<>>,
                   files |-> IF json_is_string(avatar_url) THEN pa.files ELSE files,
                   avatar |-> IF json_is_string(avatar_url) THEN pa.did ELSE "none"]

\* the user of the decoded enrichment document: login, id and, unless avatars are
\* switched off, the avatar; ok is FALSE where the code takes goto skip
ResolveUser(local_root, dl, no_avatar, files) ==
  LET user       == json_object_get(local_root, "user")
      login      == json_object_get(user, "login")
      id         == json_object_get(user, "id")
      avatar_url == json_object_get(user, "avatar_url")
      no         == [ok |-> FALSE, files |-> files, avatar |-> "none"]
  IN IF ~json_is_object(user) THEN no
     ELSE IF ~json_is_string(login) THEN no
     ELSE IF ~json_is_number(id) THEN no
     ELSE IF ~no_avatar
          THEN IF json_is_string(avatar_url)
               THEN LET pa == prepare_avatar(id.n, dl, files)
                    IN [ok |-> TRUE, user |-> login.s, user_avatar |-> pa.ret,
                        files |-> pa.files, avatar |-> pa.did]
               ELSE no
          ELSE [ok |-> TRUE, user |-> login.s, user_avatar |-> <<>>,
                files |-> files, avatar |-> "none"]

(* The body of the for loop for the array element e, with the enrichment    *)
(* fetch answered by resp and the avatar download succeeding or not (dl).   *)
(* append tells whether the notification is appended to the list (skip not  *)
(* taken), fetched whether the enrichment fetch was issued.                 *)
Iteration(e, resp, dl, no_avatar, code, lm, files) ==
  LET skip(f, c, l) == [append |-> FALSE, notif |-> NULL, fetched |-> f, code |-> c,
                        last_mod |-> l, files |-> files, avatar |-> "none"]
      rec        == ExtractRecord(e)
      r          == curl_request(FALSE, resp, code, lm)
      local_root == json_loads(r.ret)
      u          == ResolveUser(local_root, dl, no_avatar, files)
  IN IF ~rec.ok THEN skip(FALSE, code, lm)
     ELSE IF IsNull(r.ret) THEN skip(TRUE, r.code, r.last_mod)
     ELSE IF IsNull(local_root) THEN skip(TRUE, r.code, r.last_mod)
     ELSE IF ~u.ok THEN skip(TRUE, r.code, r.last_mod)
     ELSE [append |-> TRUE,
           notif |-> [repository |-> rec.repository,
                      repository_url |-> rec.repository_url,
                      type |-> rec.type, title |-> rec.title, user |-> u.user,
                      user_avatar |-> u.user_avatar, reason |-> rec.reason],
           fetched |-> TRUE, code |-> r.code, last_mod |-> r.last_mod,
           files |-> u.files, avatar |-> u.avatar]

(* g_list_foreach (notifications_list, free_notification, NULL) followed by  *)
(* g_list_free: free_notification releases the seven strings of a record,   *)
(* g_list_free the list nodes; neither releases the struct g_new0 allocated, *)
(* so the number of structs not freed stays what it was.                    *)
free_notifications(list, n) == n

\* GLib: the list with the element added at its start
g_list_prepend(list, data) == <<data>> \o list

\* GLib: the list with the element added at its end
g_list_append(list, data) == Append(list, data)

\* the response is a 200 whose body decodes to an object with a user object that
\* has a string login, a numeric id and a string avatar_url
CompleteUser(resp) ==
  /\ resp.ok
  /\ resp.status = RESPONSE_CODE_OK
  /\ resp.body.valid
  /\ LET user == json_object_get(resp.body.doc, "user")
     IN /\ json_is_object(user)
        /\ json_is_string(json_object_get(user, "login"))
        /\ json_is_number(json_object_get(user, "id"))
        /\ json_is_string(json_object_get(user, "avatar_url"))

(* ------------------- check_github_notifications ------------------------ *)

\* GLib: what becomes of a timeout source when its callback returns: it stays
\* (armed for the next interval, or due already) after TRUE, is removed after FALSE
g_timeout_dispatch(again, t) == IF again THEN t ELSE "none"

\* FeedFetch dispatched also while a tick is running
FeedFetch_reentrant(resp, g) ==
  /\ pc \in {"idle", "loop", "done"}
  /\ timer # "none"
  /\ timer' = "armed"
  /\ LET r == curl_request(TRUE, resp, g, last_mod)
     IN /\ return_code' = r.code
        /\ last_mod' = r.last_mod
        /\ curl_response' = r.ret
        /\ pc' = IF IsNull(r.ret) THEN "error" ELSE "decode"
  /\ feed' = resp
  /\ UNCHANGED <<config, server_caps, tmp_files, exit_value, json_root, json_cnt,
                 notifications_list, enrich, avatar, fetches, enrich_bad, diags, rendered,
                 events, unfreed, given, outside, owed>>

\* the timer fires: the feed fetch.  g is what the uninitialised return_code holds.
FeedFetch(resp, g) ==
  /\ pc = "idle"
  /\ timer # "none"
  /\ timer' = "armed"
  /\ LET r == curl_request(TRUE, resp, g, last_mod)
     IN /\ return_code' = r.code
        /\ last_mod' = r.last_mod
        /\ curl_response' = r.ret
        /\ pc' = IF IsNull(r.ret) THEN "error" ELSE "decode"
  /\ feed' = resp
  /\ UNCHANGED <<config, server_caps, tmp_files, exit_value, json_root, json_cnt,
                 notifications_list, enrich, avatar, fetches, enrich_bad, diags, rendered,
                 events, unfreed, given, outside, owed>>

\* json_loads of the feed body and the test of its root
Decode ==
  /\ pc = "decode"
  /\ LET root == json_loads(curl_response)
     IN IF IsNull(root) \/ ~json_is_array(root)
        THEN /\ pc' = "error"
             /\ UNCHANGED <<json_root, json_cnt>>
        ELSE /\ pc' = "loop"
             /\ json_root' = root
             /\ json_cnt' = 0
  /\ curl_response' = NULL
  /\ UNCHANGED <<config, server_caps, last_mod, tmp_files, exit_value, return_code,
                 notifications_list, history, given, timer, outside, owed, memo>>

\* ProcessElement with goto error in place of goto skip after the enrichment fetch
ProcessElement_abort(resp, dl) ==
  /\ pc = "loop"
  /\ json_cnt < Len(json_root.a)
  /\ LET it == Iteration(json_root.a[json_cnt + 1], resp, dl, opt_no_avatar,
                         return_code, last_mod, tmp_files)
     IN /\ notifications_list' = IF it.append
                                 THEN g_list_append(notifications_list, it.notif)
                                 ELSE notifications_list
        /\ diags' = IF it.append THEN diags ELSE diags + 1
        /\ return_code' = it.code
        /\ last_mod' = it.last_mod
        /\ tmp_files' = it.files
        /\ enrich' = IF it.fetched THEN resp ELSE NoResp
        /\ fetches' = IF it.fetched THEN fetches + 1 ELSE fetches
        /\ enrich_bad' = IF it.fetched /\ ~CompleteUser(resp)
                         THEN enrich_bad + 1 ELSE enrich_bad
        /\ avatar' = it.avatar
        /\ pc' = IF it.fetched /\ ~it.append THEN "error" ELSE "loop"
  /\ json_cnt' = json_cnt + 1
  /\ unfreed' = unfreed + 1
  /\ UNCHANGED <<config, server_caps, exit_value, curl_response, json_root,
                 feed, rendered, events, given, timer, outside>>

\* one iteration of the for loop over the array
ProcessElement(resp, dl) ==
  /\ pc = "loop"
  /\ json_cnt < Len(json_root.a)
  /\ LET it == Iteration(json_root.a[json_cnt + 1], resp, dl, opt_no_avatar,
                         return_code, last_mod, tmp_files)
     IN /\ notifications_list' = IF it.append
                                 THEN g_list_append(notifications_list, it.notif)
                                 ELSE notifications_list
        /\ diags' = IF it.append THEN diags ELSE diags + 1
        /\ return_code' = it.code
        /\ last_mod' = it.last_mod
        /\ tmp_files' = it.files
        /\ enrich' = IF it.fetched THEN resp ELSE NoResp
        /\ fetches' = IF it.fetched THEN fetches + 1 ELSE fetches
        /\ enrich_bad' = IF it.fetched /\ ~CompleteUser(resp)
                         THEN enrich_bad + 1 ELSE enrich_bad
        /\ avatar' = it.avatar
  /\ json_cnt' = json_cnt + 1
  /\ unfreed' = unfreed + 1
  /\ UNCHANGED <<config, server_caps, pc, exit_value, curl_response, json_root,
                 feed, rendered, events, given, timer, outside>>

\* the loop is over: show all received notifications, clean up, return TRUE
ShowAll ==
  /\ pc = "loop"
  /\ json_cnt >= Len(json_root.a)
  /\ LET shown == foreach_show_notification(notifications_list, server_caps,
                                            name, vendor, version, opt_persistent)
     IN /\ events' = events \o shown.events
        /\ server_caps' = shown.caps
  /\ rendered' = rendered \o notifications_list
  /\ notifications_list' = <<>>
  /\ json_root' = NULL
  /\ enrich' = NoResp
  /\ avatar' = "none"
  /\ pc' = "done"
  /\ timer' = g_timeout_dispatch(TRUE, timer)
  /\ UNCHANGED <<config, last_mod, tmp_files, exit_value, return_code, curl_response,
                 json_cnt, feed, fetches, enrich_bad, diags, given, outside, owed, memo>>
  /\ unfreed' = free_notifications(notifications_list, unfreed)

\* the error label returning silently for a 200 as well
ErrorPath_silent ==
  /\ pc = "error"
  /\ events' = IF return_code = RESPONSE_CODE_NOT_MODIFIED \/ return_code = RESPONSE_CODE_OK
               THEN events
               ELSE Append(events, error_notification(return_code))
  /\ pc' = "done"
  /\ timer' = g_timeout_dispatch(TRUE, timer)
  /\ UNCHANGED <<config, server_caps, last_mod, tmp_files, exit_value, locals,
                 feed, enrich, avatar, fetches, enrich_bad, diags, rendered, unfreed,
                 given, outside, owed, memo>>

\* the error label returning FALSE
ErrorPath_stop ==
  /\ pc = "error"
  /\ events' = IF return_code = RESPONSE_CODE_NOT_MODIFIED
               THEN events
               ELSE Append(events, error_notification(return_code))
  /\ pc' = "done"
  /\ timer' = g_timeout_dispatch(FALSE, timer)
  /\ UNCHANGED <<config, server_caps, last_mod, tmp_files, exit_value, locals,
                 feed, enrich, avatar, fetches, enrich_bad, diags, rendered, unfreed,
                 given, outside, owed, memo>>

\* the error label
ErrorPath ==
  /\ pc = "error"
  /\ events' = IF return_code = RESPONSE_CODE_NOT_MODIFIED
               THEN events
               ELSE Append(events, error_notification(return_code))
  /\ pc' = "done"
  /\ timer' = g_timeout_dispatch(TRUE, timer)
  /\ UNCHANGED <<config, server_caps, last_mod, tmp_files, exit_value, locals,
                 feed, enrich, avatar, fetches, enrich_bad, diags, rendered, unfreed,
                 given, outside, owed, memo>>

\* the callback has returned TRUE: the main loop waits for the next timeout
Return ==
  /\ pc = "done"
  /\ pc' = "idle"
  /\ return_code' = 0
  /\ curl_response' = NULL
  /\ json_root' = NULL
  /\ json_cnt' = 0
  /\ notifications_list' = <<>>
  /\ feed' = NoResp
  /\ enrich' = NoResp
  /\ avatar' = "none"
  /\ fetches' = 0
  /\ enrich_bad' = 0
  /\ diags' = 0
  /\ rendered' = <<>>
  /\ events' = <<>>
  /\ unfreed' = 0
  /\ UNCHANGED <<config, server_caps, last_mod, tmp_files, exit_value,
                 given, timer, outside, owed, memo>>

(* The avatar download never ends: prepare_avatar sets no timeout, so       *)
(* curl_easy_perform waits for as long as the avatar host stays silent.  The *)
(* iteration has fetched the enrichment (answered by resp), found the file   *)
(* missing and created it; it never comes back from the download.            *)
AvatarStall(resp) ==
  /\ pc = "loop"
  /\ json_cnt < Len(json_root.a)
  /\ LET it == Iteration(json_root.a[json_cnt + 1], resp, FALSE, opt_no_avatar,
                         return_code, last_mod, tmp_files)
     IN /\ it.avatar = "fail"
        /\ return_code' = it.code
        /\ last_mod' = it.last_mod
        /\ tmp_files' = it.files
  /\ enrich' = resp
  /\ fetches' = fetches + 1
  /\ unfreed' = unfreed + 1
  /\ pc' = "blocked"
  /\ UNCHANGED <<config, server_caps, exit_value, curl_response, json_root, json_cnt,
                 notifications_list, feed, avatar, enrich_bad, diags, rendered, events,
                 given, timer, outside, owed, memo>>

(* ----------------------------- main loop ------------------------------- *)

\* the interval of the timeout source has passed
Expire ==
  /\ pc \notin {"start", "exited"}
  /\ timer = "armed"
  /\ timer' = "due"
  /\ UNCHANGED <<config, server_caps, last_mod, tmp_files, pc, exit_value, locals,
                 history, given, outside, owed, memo>>

\* a SIGINT arrives after g_unix_signal_add has installed the handler
Signal ==
  /\ pc \notin {"start", "exited"}
  /\ ~sigint
  /\ sigint' = TRUE
  /\ UNCHANGED <<config, server_caps, last_mod, tmp_files, pc, exit_value, locals,
                 history, given, timer, upstream, owed, memo>>

\* sigint_handler without the call of g_main_loop_quit
sigint_handler_noquit ==
  /\ pc = "idle"
  /\ sigint
  /\ sigint' = FALSE
  /\ UNCHANGED <<config, server_caps, last_mod, tmp_files, pc, exit_value, locals,
                 history, given, timer, upstream, owed, memo>>

(* The main loop, idle, dispatches the signal source: sigint_handler quits  *)
(* the loop, g_main_loop_run returns and main returns exit_value, which is  *)
(* still the EXIT_SUCCESS it was initialised with.                          *)
sigint_handler ==
  /\ pc = "idle"
  /\ sigint
  /\ sigint' = FALSE
  /\ pc' = "exited"
  /\ UNCHANGED <<config, server_caps, last_mod, tmp_files, exit_value, locals,
                 history, given, timer, upstream, owed, memo>>

(* --------------------------- specification ----------------------------- *)

CommandLines == { CmdLine(TRUE, FALSE, FALSE, 45), CmdLine(TRUE, TRUE, TRUE, 10),
                  CmdLine(FALSE, FALSE, FALSE, 45) }

Servers ==
  { Server(CapList({BODY, BODY_HYPERLINKS}), TRUE, "Plasma", "KDE", "1.0"),
    Server(CapList(CapNames), TRUE, "Xfce Notify Daemon", "Xfce", "0.4.2"),
    Server(<<>>, TRUE, "none", "none", "0"),
    Server(CapList({BODY}), FALSE, "none", "none", "0") }

\* main, for a command line of cmds and a notification server of srvs
StartupFrom(cmds, srvs) ==
  /\ pc = "start"
  /\ \E cmd \in cmds, srv \in srvs : Main(cmd, srv)

\* The environment of the feed fetch, answering from resps.  A completed transfer
\* writes return_code, so what the variable held before is chosen only for a
\* failed one.
FetchFrom(resps) ==
  /\ pc = "idle"
  /\ \E resp \in resps :
       \E g \in (IF resp.ok THEN {0} ELSE Garbage) : FeedFetch(resp, g)
  /\ UNCHANGED memo

\* The environment of one iteration: the response to the enrichment fetch, from
\* resps, and the outcome of the avatar download.  One that is never read is not
\* chosen: an iteration that issues no fetch is given Failed, one that downloads
\* nothing TRUE.
ProcessFrom(resps) ==
  /\ pc = "loop"
  /\ json_cnt < Len(json_root.a)
  /\ LET e == json_root.a[json_cnt + 1]
         try(resp) == Iteration(e, resp, TRUE, opt_no_avatar, return_code, last_mod, tmp_files)
     IN \E resp \in (IF try(Failed).fetched THEN resps ELSE {Failed}) :
          \E dl \in (IF try(resp).avatar = "ok" THEN BOOLEAN ELSE {TRUE}) :
            ProcessElement(resp, dl)

Startup == StartupFrom(CommandLines, Servers)
Fetch == FetchFrom(FeedResponses)
Process == ProcessFrom(EnrichResponses) /\ UNCHANGED <<owed, memo>>

Next == Startup \/ Fetch \/ Decode \/ Process \/ ShowAll \/ ErrorPath \/ Return

Spec == Init /\ [][Next]_vars

(* The renderer under every capability vector and server identity: the same  *)
(* program, started against every server, with feeds of well-formed elements *)
(* whose enrichment succeeds (and one that is answered 401).  The strings of  *)
(* an element or of a user can be empty.                                     *)

Identities ==
  { <<"Plasma", "KDE", "1.0">>, <<"Plasma", "KDE", "2.0">>,
    <<"Xfce Notify Daemon", "Xfce", "0.4.2">>, <<"Xfce Notify Daemon", "KDE", "1.0">>,
    <<"gnome-shell", "GNOME", "3.0">> }

RenderServers ==
  { Server(CapList(S), TRUE, i[1], i[2], i[3]) : S \in SUBSET CapNames, i \in Identities }

RenderFeeds ==
  { Resp(RESPONSE_CODE_OK, Text(JArr(a)), 1) :
      a \in UNION { [1..n -> GoodElems \cup {ElemE}] : n \in 1..MaxFeed } }
  \cup { Resp(RESPONSE_CODE_UNAUTHORIZED, BadText, -1) }

\* a comment whose user has the empty string for a login
CommentE == Put(CommentA, "user", Put(UserA, "login", JStr("")))

RenderEnrich == { Resp(RESPONSE_CODE_OK, Text(c), -1) : c \in {CommentA, CommentE} }

RenderStartup == StartupFrom(CommandLines, RenderServers)
RenderFetch == FetchFrom(RenderFeeds)
RenderProcess == ProcessFrom(RenderEnrich) /\ UNCHANGED <<owed, memo>>

NextRender ==
  RenderStartup \/ RenderFetch \/ Decode \/ RenderProcess \/ ShowAll \/ ErrorPath \/ Return

SpecRender == Init /\ [][NextRender]_vars

(* The polling interval: the same program started with every kind of value  *)
(* the polling-interval option can be given.  G_OPTION_ARG_INT parses a gint *)
(* and stores it into the guint opt_interval.                                *)

OptionIntervals == {-45, -1, 0, 44, 45, 46, 3600}

OptionLines ==
  { CmdLine(TRUE, FALSE, FALSE, iv) : iv \in OptionIntervals }
  \cup { CmdLine(FALSE, FALSE, FALSE, 45) }

OptionStartup == StartupFrom(OptionLines, Servers)

NextOptions ==
  OptionStartup \/ RenderFetch \/ Decode \/ RenderProcess \/ ShowAll \/ ErrorPath \/ Return

SpecOptions == Init /\ [][NextOptions]_vars

(* The daemon over time: the timer expires while the loop is idle or while  *)
(* a tick is running, a SIGINT arrives at any moment, the avatar host may    *)
(* never answer, and the feed server honours If-Modified-Since: it answers   *)
(* 304 unless its feed has changed after the time the request carries.       *)

\* the feed the remote server lists when its Last-Modified time is m: what is
\* unread stays listed, a later version lists one more element
UpstreamFeed(m) == IF m = 1 THEN <<ElemA>> ELSE <<ElemA, ElemB>>

\* the answer of the feed server to a request carrying If-Modified-Since: lm
UpstreamAnswer(lm) ==
  IF upstream <= lm
  THEN Resp(RESPONSE_CODE_NOT_MODIFIED, BadText, -1)
  ELSE Resp(RESPONSE_CODE_OK, Text(JArr(UpstreamFeed(upstream))), upstream)

\* the feed changes at the remote server
UpstreamChange ==
  /\ pc \notin {"start", "exited"}
  /\ upstream <= MaxChanges
  /\ upstream' = upstream + 1
  /\ UNCHANGED <<config, server_caps, last_mod, tmp_files, pc, exit_value, locals,
                 history, given, timer, sigint, owed, memo>>

\* what a feed fetch can meet: no answer, an error status, a body that does not
\* decode, or the answer of the feed server
LiveFeeds ==
  { Failed,
    Resp(RESPONSE_CODE_UNAUTHORIZED, BadText, -1),
    Resp(500, BadText, -1),
    Resp(RESPONSE_CODE_OK, BadText, upstream),
    UpstreamAnswer(last_mod) }

LiveEnrich == { Resp(RESPONSE_CODE_OK, Text(CommentA), -1), Failed }

LiveLines == { CmdLine(TRUE, FALSE, FALSE, 45), CmdLine(TRUE, TRUE, FALSE, 45) }

LiveServers ==
  { Server(CapList({BODY, BODY_HYPERLINKS}), TRUE, "Plasma", "KDE", "1.0"),
    Server(<<>>, TRUE, "none", "none", "0") }

LiveStartup == StartupFrom(LiveLines, LiveServers)

\* the repositories of the records the iterations its appended
Appended(its) == { its[i].repository : i \in { j \in DOMAIN its : its[j].appended } }

(* The main loop, idle, dispatches the timeout source once it is due.  The   *)
(* tick before this one has ended: what it appended it has rendered.        *)
LiveFetch ==
  /\ timer = "due"
  /\ \E resp \in LiveFeeds :
       \E g \in (IF resp.ok THEN {0} ELSE Garbage) : FeedFetch(resp, g)
  /\ past' = past \cup Appended(iterations)
  /\ iterations' = <<>>
  /\ stamp' = IF feed'.ok /\ feed'.status = RESPONSE_CODE_OK THEN feed'.filetime ELSE stamp

(* One iteration, with the record of what is owed: a well-formed element    *)
(* that is not appended was dropped for its enrichment; one that is         *)
(* appended is rendered when the loop is over.  The iteration is written    *)
(* down: the response to its enrichment fetch (NoResp when none was issued), *)
(* the outcome of its avatar download ("none" when none was issued), and     *)
(* whether it appended the record.                                          *)
LiveProcess ==
  /\ ProcessFrom(LiveEnrich)
  /\ LET rec == ExtractRecord(json_root.a[json_cnt + 1])
         app == Len(notifications_list') > Len(notifications_list)
     IN /\ owed' = IF ~rec.ok THEN owed
                   ELSE IF app
                   THEN owed \ {rec.repository}
                   ELSE owed \cup {rec.repository}
        /\ iterations' =
             Append(iterations,
                    [resp |-> enrich',
                     download |-> IF avatar' \in {"ok", "fail"} THEN avatar' ELSE "none",
                     appended |-> app,
                     repository |-> IF rec.ok THEN rec.repository ELSE NullStr])
  /\ UNCHANGED <<past, stamp>>

LiveStall ==
  /\ pc = "loop"
  /\ \E resp \in LiveEnrich : AvatarStall(resp)

NextLive ==
  \/ LiveStartup \/ LiveFetch \/ Decode \/ LiveProcess \/ ShowAll \/ ErrorPath \/ Return
  \/ LiveStall \/ Expire \/ Signal \/ sigint_handler \/ UpstreamChange

(* The code of a tick runs on, and every call of curl_request returns within *)
(* its 30 s timeout; time passes; an idle main loop dispatches a source that *)
(* is ready, and it dispatches every source that is ready in one iteration,  *)
(* so a pending signal is not passed over for ever by the timer.             *)
Fairness ==
  /\ WF_vars(Decode) /\ WF_vars(LiveProcess) /\ WF_vars(ShowAll)
  /\ WF_vars(ErrorPath) /\ WF_vars(Return)
  /\ WF_vars(Expire) /\ WF_vars(LiveFetch)
  /\ SF_vars(sigint_handler)

SpecLive == Init /\ [][NextLive]_vars /\ Fairness

(* ------------------------------ properties ----------------------------- *)

\* the response is a completed transfer with status st
Answered(resp, st) == resp.ok /\ resp.status = st

\* the tick emitted exactly one event, critical, with the summary msg
OneCriticalEvent(msg) ==
  /\ Len(events) = 1
  /\ events[1].urgency = "critical"
  /\ events[1].summary = msg

\* the step is one iteration of the loop over the feed array
IterationStep == pc = "loop" /\ json_cnt' = json_cnt + 1

\* the feed response is a 200 whose body decodes to an array
ArrayFeed(resp) ==
  Answered(resp, RESPONSE_CODE_OK) /\ resp.body.valid /\ resp.body.doc.t = "array"

\* j is an object whose key is a string
HasString(j, key) ==
  j.t = "object" /\ key \in DOMAIN j.o /\ j.o[key].t = "string"

\* j is an object whose key is an object
HasObject(j, key) ==
  j.t = "object" /\ key \in DOMAIN j.o /\ j.o[key].t = "object"

\* a feed element with every required field present and of the right type
WellFormed(e) ==
  /\ HasString(e, "reason")
  /\ HasObject(e, "subject")
  /\ HasString(e.o.subject, "type")
  /\ HasString(e.o.subject, "title")
  /\ HasString(e.o.subject, "latest_comment_url")
  /\ HasObject(e, "repository")
  /\ HasString(e.o.repository, "name")
  /\ HasString(e.o.repository, "html_url")

(* C1: in a tick whose feed fetch is answered 304 no event of any kind is   *)
(* emitted and no step of the tick changes the staleness marker.            *)
C1_NotModifiedIsSilent ==
  [][ (Answered(feed, RESPONSE_CODE_NOT_MODIFIED)
         \/ Answered(feed', RESPONSE_CODE_NOT_MODIFIED))
      => (events' = <<>> /\ rendered' = <<>> /\ last_mod' = last_mod) ]_vars

C1_Witness ==
  /\ pc = "done"
  /\ Answered(feed, RESPONSE_CODE_NOT_MODIFIED)
  /\ last_mod = 1
  /\ events = <<>>

(* C2: a tick whose feed fetch fails at transport level ends with exactly   *)
(* one critical event carrying the generic message.                         *)
C2_TransportFailureIsUndefinedError ==
  (pc = "done" /\ ~feed.ok) => OneCriticalEvent(UNDEF_ERROR_MSG)

(* C3: a tick whose feed response has a status other than 200 and 304 emits *)
(* exactly one event, critical, and renders nothing; the event carries the  *)
(* authorization message iff the status is 401, else the generic message.   *)
C3_ErrorStatusOneCriticalEvent ==
  (pc = "done" /\ feed.ok
     /\ feed.status \notin {RESPONSE_CODE_OK, RESPONSE_CODE_NOT_MODIFIED})
  => /\ rendered = <<>>
     /\ fetches = 0
     /\ OneCriticalEvent(IF feed.status = RESPONSE_CODE_UNAUTHORIZED
                         THEN AUTH_ERROR_MSG ELSE UNDEF_ERROR_MSG)

C3_Witness ==
  /\ pc = "done"
  /\ Answered(feed, RESPONSE_CODE_UNAUTHORIZED)
  /\ feed.body.valid
  /\ OneCriticalEvent(AUTH_ERROR_MSG)

(* C4: a 200 feed response whose body does not decode or whose root is no   *)
(* array is rejected whole: no enrichment fetch, nothing rendered, exactly  *)
(* one critical event with the generic message.                             *)
C4_MalformedFeedRejected ==
  (pc = "done" /\ Answered(feed, RESPONSE_CODE_OK) /\ ~ArrayFeed(feed))
  => /\ fetches = 0
     /\ rendered = <<>>
     /\ OneCriticalEvent(UNDEF_ERROR_MSG)

C4_Witness ==
  /\ pc = "done"
  /\ Answered(feed, RESPONSE_CODE_OK)
  /\ feed.body.valid
  /\ feed.body.doc.t = "object"
  /\ fetches = 0
  /\ Len(events) = 1

(* C5: when every enrichment of the tick succeeds, the notifications that   *)
(* reach the renderer are those of the well-formed elements of the array,   *)
(* in array order, one event each, and there is one 'invalid notification'  *)
(* diagnostic for each malformed element.                                   *)
C5_WellFormedRenderedInOrder ==
  (pc = "done" /\ ArrayFeed(feed) /\ enrich_bad = 0)
  => LET a    == feed.body.doc.a
         good == SelectSeq(a, WellFormed)
     IN /\ Len(rendered) = Len(good)
        /\ \A i \in 1..Len(good) :
             /\ i <= Len(rendered)
             /\ rendered[i].reason = good[i].o.reason.s
             /\ rendered[i].type = good[i].o.subject.o.type.s
             /\ rendered[i].title = good[i].o.subject.o.title.s
             /\ rendered[i].repository = good[i].o.repository.o.name.s
             /\ rendered[i].repository_url = good[i].o.repository.o.html_url.s
        /\ diags = Len(a) - Len(good)
        /\ Len(events) = Len(good)
        /\ \A i \in DOMAIN events : events[i].urgency = "normal"

C5_Witness ==
  /\ pc = "done"
  /\ ArrayFeed(feed)
  /\ enrich_bad = 0
  /\ Len(feed.body.doc.a) = 2
  /\ ~WellFormed(feed.body.doc.a[1])
  /\ WellFormed(feed.body.doc.a[2])
  /\ Len(rendered) = 1
  /\ diags = 1

\* the enrichment response does not resolve: no completed 200/304 transfer, no
\* decodable body, or no user object with a string login and a numeric id (and,
\* with avatars switched on, a string avatar_url)
EnrichmentFails(resp, no_avatar) ==
  \/ ~resp.ok
  \/ resp.status \notin {RESPONSE_CODE_OK, RESPONSE_CODE_NOT_MODIFIED}
  \/ ~resp.body.valid
  \/ ~HasObject(resp.body.doc, "user")
  \/ ~HasString(resp.body.doc.o.user, "login")
  \/ ~( resp.body.doc.o.user.t = "object" /\ "id" \in DOMAIN resp.body.doc.o.user.o
        /\ resp.body.doc.o.user.o.id.t = "number" )
  \/ (~no_avatar /\ ~HasString(resp.body.doc.o.user, "avatar_url"))

(* C6: an iteration whose enrichment fails drops that element only: the     *)
(* loop goes on with the next element, the list and the events are left     *)
(* alone; every well-formed element is enriched and, when its enrichment    *)
(* resolves, appended; the tick visits the whole array, renders the list    *)
(* and emits no critical event.                                             *)
C6_EnrichmentFailureIsLocal ==
  /\ [][ (IterationStep /\ enrich' # NoResp /\ EnrichmentFails(enrich', opt_no_avatar))
         => /\ pc' = "loop"
            /\ notifications_list' = notifications_list
            /\ diags' = diags + 1
            /\ events' = events ]_vars
  /\ [][ (IterationStep /\ WellFormed(json_root.a[json_cnt + 1]))
         => /\ fetches' = fetches + 1
            /\ enrich' # NoResp
            /\ (~EnrichmentFails(enrich', opt_no_avatar)
                  => Len(notifications_list') = Len(notifications_list) + 1) ]_vars
  /\ [] ( (pc = "done" /\ ArrayFeed(feed))
          => /\ json_cnt = Len(feed.body.doc.a)
             /\ Len(rendered) = Len(feed.body.doc.a) - diags
             /\ Len(events) = Len(rendered)
             /\ \A i \in DOMAIN events : events[i].urgency = "normal" )

C6_Witness ==
  /\ pc = "done"
  /\ ArrayFeed(feed)
  /\ feed.body.doc.a = <<ElemA, ElemB>>
  /\ enrich_bad = 1
  /\ diags = 1
  /\ Len(rendered) = 1
  /\ rendered[1].repository = "s"
  /\ Len(events) = 1
  /\ events[1].urgency = "normal"

\* the enrichment response decodes to a document
Decodes(resp) ==
  /\ resp.ok
  /\ resp.status \in {RESPONSE_CODE_OK, RESPONSE_CODE_NOT_MODIFIED}
  /\ resp.body.valid

\* j is an object whose key is a number
HasNumber(j, key) ==
  j.t = "object" /\ key \in DOMAIN j.o /\ j.o[key].t = "number"

\* the document has a user object with a string login and a numeric id
HasLoginAndId(doc) ==
  /\ HasObject(doc, "user")
  /\ HasString(doc.o.user, "login")
  /\ HasNumber(doc.o.user, "id")

\* the document has a user object with a string avatar_url
HasAvatarUrl(doc) == HasObject(doc, "user") /\ HasString(doc.o.user, "avatar_url")

(* C7 as stated: an iteration whose enrichment document lacks the user      *)
(* object, the login, the id or the avatar_url appends nothing, with avatars *)
(* switched on or off.                                                      *)
C7_AnyMissingUserFieldDrops ==
  [][ (IterationStep /\ enrich' # NoResp /\ Decodes(enrich')
         /\ ~(HasLoginAndId(enrich'.body.doc) /\ HasAvatarUrl(enrich'.body.doc)))
      => notifications_list' = notifications_list ]_vars

(* C7 as amended: an iteration whose enrichment document lacks the user     *)
(* object, the login or the id appends nothing and logs the diagnostic, with *)
(* avatars switched on or off; one that lacks only the avatar_url does so    *)
(* when avatars are switched on and, when they are switched off, appends the *)
(* record with an absent icon.  Only what was appended is rendered.         *)
C7_MissingUserFieldDrops ==
  /\ [][ (IterationStep /\ enrich' # NoResp /\ Decodes(enrich'))
         => LET doc == enrich'.body.doc
            IN /\ (~HasLoginAndId(doc) \/ (~opt_no_avatar /\ ~HasAvatarUrl(doc)))
                    => /\ notifications_list' = notifications_list
                       /\ diags' = diags + 1
               /\ (HasLoginAndId(doc) /\ opt_no_avatar /\ ~HasAvatarUrl(doc))
                    => /\ Len(notifications_list') = Len(notifications_list) + 1
                       /\ notifications_list'[Len(notifications_list')].user_avatar = <<>>
                       /\ diags' = diags ]_vars
  /\ [][ pc' = "done" => rendered' = notifications_list ]_vars

C7_Witness ==
  /\ pc = "done"
  /\ opt_no_avatar
  /\ ArrayFeed(feed)
  /\ Len(feed.body.doc.a) = 1
  /\ fetches = 1
  /\ enrich_bad = 1
  /\ Len(rendered) = 1
  /\ rendered[1].user_avatar = <<>>

(* C8: with avatars switched on, an iteration whose avatar download fails   *)
(* still appends the record, with an absent icon; every appended record is  *)
(* rendered exactly once, with the icon it was given; with avatars switched *)
(* off no avatar is fetched and every icon is absent.                       *)
C8_AvatarFailureKeepsRecord ==
  /\ [][ (IterationStep /\ avatar' = "fail")
         => /\ ~opt_no_avatar
            /\ Len(notifications_list') = Len(notifications_list) + 1
            /\ notifications_list'[Len(notifications_list')].user_avatar = <<>> ]_vars
  /\ [][ (pc = "loop" /\ pc' = "done")
         => /\ rendered' = notifications_list
            /\ Len(events') = Len(notifications_list)
            /\ \A i \in DOMAIN events' :
                 /\ events'[i].urgency = "normal"
                 /\ events'[i].icon = notifications_list[i].user_avatar ]_vars
  /\ [] ( opt_no_avatar
          => /\ avatar = "none"
             /\ \A i \in DOMAIN tmp_files : tmp_files[i] = "absent"
             /\ \A i \in DOMAIN events : events[i].icon = <<>> )

C8_Witness ==
  /\ pc = "done"
  /\ ~opt_no_avatar
  /\ ArrayFeed(feed)
  /\ Len(feed.body.doc.a) = 1
  /\ tmp_files[7] = "partial"
  /\ Len(events) = 1
  /\ events[1].urgency = "normal"
  /\ events[1].icon = <<>>

(* C9: a step changes the staleness marker only if it is the feed fetch and *)
(* the fetch is answered 200; the marker then is that response's time.      *)
C9_MarkerChangesOnlyOnFeed200 ==
  [][ last_mod' # last_mod
      => /\ pc = "idle"
         /\ Answered(feed', RESPONSE_CODE_OK)
         /\ last_mod' = feed'.filetime ]_vars

C9_Witness ==
  /\ pc = "done"
  /\ Answered(feed, RESPONSE_CODE_OK)
  /\ feed.filetime = 1
  /\ last_mod = 1
  /\ fetches = 2
  /\ enrich_bad = 1
  /\ tmp_files[7] = "complete"

\* the tokens of the markup the renderer can insert
BoldTags == {TAG_BOLD, TAG_BOLD_END}
LinkTags == {"<a href=", ">Link to Repository</a>"}
MarkupTags == BoldTags \cup {"<br/>"} \cup LinkTags

\* the body of the event holds one of the tokens
Holds(event, tokens) == \E j \in DOMAIN event.body : event.body[j] \in tokens

IsPlasma10 == name = "Plasma" /\ vendor = "KDE" /\ version = "1.0"
IsXfce == name = "Xfce Notify Daemon" /\ vendor = "Xfce"

(* C10 as stated: with body-markup not supported, no rendered body holds a  *)
(* bold tag, a <br/> or an <a ...> element.                                 *)
C10_NoMarkupTagsWithoutMarkup ==
  \A i \in DOMAIN events :
    (events[i].urgency = "normal" /\ ~server_caps.body_markup)
      => ~Holds(events[i], MarkupTags)

(* C10 as amended: with body-markup not supported no rendered body holds a  *)
(* bold tag; it holds <br/> exactly when body text is supported and the     *)
(* server is Plasma/KDE/1.0, and the <a ...> element exactly when body text *)
(* and hyperlinks are supported and the server is not Xfce Notify           *)
(* Daemon/Xfce.                                                             *)
C10_NoBoldTagsWithoutMarkup ==
  \A i \in DOMAIN events :
    (events[i].urgency = "normal" /\ ~server_caps.body_markup)
      => /\ ~Holds(events[i], BoldTags)
         /\ Holds(events[i], {"<br/>"}) <=> (server_caps.body /\ IsPlasma10)
         /\ Holds(events[i], LinkTags)
              <=> (server_caps.body /\ server_caps.body_hyperlinks /\ ~IsXfce)

C10_Witness ==
  /\ pc = "done"
  /\ ~server_caps.body_markup
  /\ server_caps.body
  /\ server_caps.body_hyperlinks
  /\ IsPlasma10
  /\ Len(events) = 2
  /\ events[1].urgency = "normal"
  /\ Holds(events[1], {"<br/>"})
  /\ Holds(events[1], LinkTags)
  /\ ~Holds(events[1], BoldTags)

(* C11: a rendered body holds the repository hyperlink only if the server   *)
(* advertised hyperlink support and is not Xfce Notify Daemon/Xfce: on that *)
(* server no body holds it, the first one included, even though hyperlink   *)
(* support was negotiated; where it was not negotiated no body holds it.    *)
C11_HyperlinkOnlyIfSupportedAndNotXfce ==
  \A i \in DOMAIN events :
    (events[i].urgency = "normal" /\ Holds(events[i], LinkTags))
      => (negotiated.body_hyperlinks /\ ~IsXfce)

C11_Witness ==
  /\ pc = "done"
  /\ IsXfce
  /\ negotiated.body
  /\ negotiated.body_hyperlinks
  /\ Len(events) = 2
  /\ events[1].body # <<>>
  /\ ~Holds(events[1], LinkTags)
  /\ ~Holds(events[2], LinkTags)

\* the places of the body of the event that hold the token
Places(event, token) == { j \in DOMAIN event.body : event.body[j] = token }

(* C12: every rendered body has a line break after each of its first three  *)
(* lines and one before the hyperlink line when there is one; each of them  *)
(* is <br/> when the server is Plasma/KDE/1.0 and the newline character for  *)
(* every other identity, other versions of Plasma/KDE included.             *)
C12_LineBreakByIdentity ==
  \A i \in DOMAIN events :
    (events[i].urgency = "normal" /\ events[i].body # <<>>)
      => LET br == Places(events[i], "<br/>")
             nl == Places(events[i], "\n")
         IN /\ Cardinality(br) + Cardinality(nl)
                 = (IF Holds(events[i], LinkTags) THEN 4 ELSE 3)
            /\ IsPlasma10 => nl = {}
            /\ ~IsPlasma10 => br = {}

C12_Witness ==
  /\ pc = "done"
  /\ IsPlasma10
  /\ Len(events) = 2
  /\ Holds(events[2], LinkTags)
  /\ Cardinality(Places(events[2], "<br/>")) = 4
  /\ Places(events[2], "\n") = {}

(* C13: once the poll timer is registered its interval is the larger of the *)
(* configured value and 45, for every integer the option can be given,      *)
(* zero and the negative ones included.                                     *)
C13_IntervalIsMaxOf45 ==
  timer # "none"
    => opt_interval = (IF configured < MIN_INTERVAL THEN MIN_INTERVAL ELSE configured)

\* the strings of a notification record
Strings(notif) ==
  { notif.repository, notif.repository_url, notif.type, notif.title, notif.user,
    notif.reason }

(* C14: every notification handed to the renderer has a repository name, a  *)
(* repository URL, a subject type, a subject title, an actor login and a    *)
(* reason that are present and not empty, and when the tick returns no      *)
(* record it created is left: the list is empty and every struct is freed.  *)
C14_RenderedFullyPopulated ==
  /\ \A i \in DOMAIN rendered : Strings(rendered[i]) \cap {"", NullStr} = {}
  /\ pc = "done" => (notifications_list = <<>> /\ unfreed = 0)

(* C15 as stated: once startup is over no step writes the capability vector. *)
C15_CapsNeverWritten ==
  [][ pc # "start" => server_caps' = server_caps ]_vars

(* C15 as amended: once startup is over no step changes body, body-markup   *)
(* or persistence, and for a server other than Xfce Notify Daemon/Xfce the  *)
(* vector stays as negotiated; for that server the only change is that      *)
(* rendering a notification clears body-hyperlinks.                         *)
C15_CapsWrittenOnlyForXfce ==
  /\ [][ pc # "start"
         => /\ server_caps'.body = server_caps.body
            /\ server_caps'.body_markup = server_caps.body_markup
            /\ server_caps'.persistence = server_caps.persistence
            /\ server_caps'.body_hyperlinks # server_caps.body_hyperlinks
                 => /\ IsXfce
                    /\ pc = "loop" /\ pc' = "done"
                    /\ notifications_list # <<>>
                    /\ ~server_caps'.body_hyperlinks ]_vars
  /\ [] ( (pc # "start" /\ ~IsXfce) => server_caps = negotiated )

C15_Witness ==
  /\ pc = "done"
  /\ IsXfce
  /\ negotiated.body_hyperlinks
  /\ ~server_caps.body_hyperlinks
  /\ server_caps.body = negotiated.body
  /\ Len(events) = 1

\* the positions of a tick that is running
InTick == {"decode", "loop", "error", "done"}

(* C16: every tick eventually returns to Idle, whatever the remote servers  *)
(* do: no fetch of a tick waits for ever.                                   *)
C16_EveryTickReturnsToIdle ==
  (pc \in InTick) ~> (pc = "idle")

\* the step dispatches the timeout source: a tick begins with its feed fetch
FetchStep == timer = "due" /\ timer' = "armed"

(* C17: a tick begins only when the main loop is idle and nothing of an     *)
(* earlier tick is in flight: no list, no decoded feed, nothing fetched,    *)
(* rendered or shown; a timer that becomes due while a tick is running      *)
(* waits until the tick has returned.                                       *)
C17_NoOverlappingTicks ==
  /\ [][ FetchStep
         => /\ pc = "idle"
            /\ feed = NoResp
            /\ IsNull(json_root)
            /\ notifications_list = <<>>
            /\ fetches = 0 /\ unfreed = 0
            /\ rendered = <<>> /\ events = <<>> ]_vars
  /\ [][ (pc \in InTick /\ timer = "due") => timer' = "due" ]_vars

C17_Witness ==
  /\ pc = "done"
  /\ timer = "due"
  /\ Len(rendered) = 1
  /\ Len(events) = 1
  /\ last_mod = 1

(* C18: the handler of a pending SIGINT runs only when the main loop is     *)
(* idle and ends the process with exit code 0; it does not wait for the     *)
(* timer: with the signal pending and the timer not due the idle loop does  *)
(* nothing but exit; and a pending signal leads to the end of the process   *)
(* unless a tick never returns.                                             *)
C18_SignalEndsTheLoop ==
  /\ [][ (sigint /\ ~sigint')
         => (pc = "idle" /\ pc' = "exited" /\ exit_value' = 0) ]_vars
  /\ [][ (sigint /\ pc = "idle" /\ timer = "armed" /\ pc' # pc) => pc' = "exited" ]_vars
  /\ sigint ~> (pc = "exited" \/ pc = "blocked")

C18_Witness ==
  /\ pc = "exited"
  /\ exit_value = 0
  /\ timer = "armed"
  /\ last_mod = 1
  /\ tmp_files[7] = "complete"

(* C19: no step of a tick ends the process or removes the timer; a tick     *)
(* that has reached its error label or its return comes back to Idle with   *)
(* the timer in place, whatever the outcome was, and unless a SIGINT ends   *)
(* the process meanwhile the feed is fetched again.                         *)
C19_NoOutcomeStopsPolling ==
  /\ [][ (pc \in InTick) => (pc' # "exited" /\ exit_value' = exit_value) ]_vars
  /\ [] (pc \in InTick \cup {"idle"} => timer # "none")
  /\ [][ (pc = "done" /\ pc' # pc) => pc' = "idle" ]_vars
  /\ (pc \in {"error", "done"}) ~> (pc = "idle")
  /\ (pc = "done") ~> (pc \in {"decode", "error", "exited"})

C19_Witness ==
  /\ pc = "decode"
  /\ owed = {"r"}
  /\ last_mod = 2
  /\ tmp_files[7] = "partial"

(* C20: when a record was dropped for its failed enrichment and the feed    *)
(* server, which still lists it, answers the next feed fetch, the tick gets *)
(* the feed and processes the record again, also when the feed has not      *)
(* changed since.                                                           *)
C20_DroppedRecordIsRetried ==
  [][ (FetchStep /\ owed # {} /\ feed' = UpstreamAnswer(last_mod)) => pc' = "decode" ]_vars

\* the step is an iteration that called prepare_avatar
AvatarRequest == IterationStep /\ avatar' # "none"

\* the user id the iteration of this step called prepare_avatar with
RequestedId == enrich'.body.doc.o.user.o.id.n

(* C21: whenever prepare_avatar returns a path the file at that path holds a *)
(* completely downloaded image; a request whose download fails returns NULL  *)
(* and leaves no file at the path; a request that finds a complete file      *)
(* downloads nothing and leaves the file as it is.                          *)
C21_AvatarCacheIsSound ==
  [][ AvatarRequest
      => LET id   == RequestedId
             icon == notifications_list'[Len(notifications_list')].user_avatar
         IN /\ icon # <<>> => (icon = PathOf(id) /\ tmp_files'[id] = "complete")
            /\ avatar' = "fail" => (icon = <<>> /\ tmp_files'[id] = "absent")
            /\ tmp_files[id] = "complete" => (avatar' = "cached" /\ tmp_files' = tmp_files)
    ]_vars

\* C21, the part on returned paths alone
C21_ReturnedPathIsComplete ==
  [][ AvatarRequest
      => LET icon == notifications_list'[Len(notifications_list')].user_avatar
         IN icon # <<>> => tmp_files'[RequestedId] = "complete" ]_vars

\* C21, the part on failed downloads alone
C21_FailureLeavesNoFile ==
  [][ (AvatarRequest /\ avatar' = "fail") => tmp_files'[RequestedId] = "absent" ]_vars

\* C21, the part on complete cached files alone
C21_CompleteFileIsNotFetched ==
  [][ (AvatarRequest /\ tmp_files[RequestedId] = "complete")
      => (avatar' = "cached" /\ tmp_files' = tmp_files) ]_vars

(* The notifications a tick renders, told from what the tick itself met: the *)
(* elements a of its feed array and, for each, the iteration's enrichment    *)
(* response and avatar download.  A well-formed element whose enrichment     *)
(* decodes to a complete user gives one notification; its icon is the path   *)
(* of the user's avatar unless avatars are switched off or the download      *)
(* failed.  Nothing an earlier tick did is read.                            *)
RECURSIVE TickRecords(_, _)
TickRecords(a, its) ==
  IF a = <<>> \/ its = <<>> THEN <<>>
  ELSE LET rec  == ExtractRecord(Head(a))
           it   == Head(its)
           doc  == it.resp.body.doc
           good == /\ rec.ok
                   /\ Decodes(it.resp)
                   /\ HasLoginAndId(doc)
                   /\ (opt_no_avatar \/ HasAvatarUrl(doc))
           icon == IF opt_no_avatar \/ it.download = "fail"
                   THEN <<>>
                   ELSE PathOf(doc.o.user.o.id.n)
           one  == [repository |-> rec.repository,
                    repository_url |-> rec.repository_url,
                    type |-> rec.type, title |-> rec.title,
                    user |-> doc.o.user.o.login.s,
                    user_avatar |-> icon, reason |-> rec.reason]
       IN (IF good THEN <<one>> ELSE <<>>) \o TickRecords(Tail(a), Tail(its))

(* The events of a tick as a function of the response f to its feed fetch,   *)
(* of its iterations, of the configuration and of the negotiated capability  *)
(* vector: nothing for a 304, one critical event for a fetch that failed,    *)
(* for another status and for a body that is no array, and else one event    *)
(* for each notification of TickRecords, in the order of the feed.           *)
TickEvents(f, its) ==
  IF ~f.ok THEN <<error_notification(0)>>
  ELSE IF f.status = RESPONSE_CODE_NOT_MODIFIED THEN <<>>
  ELSE IF ~ArrayFeed(f) THEN <<error_notification(f.status)>>
  ELSE foreach_show_notification(TickRecords(f.body.doc.a, its), negotiated,
                                 name, vendor, version, opt_persistent).events

(* C22: the events a tick has emitted when it ends are those its own feed    *)
(* response and its own enrichment and avatar responses determine, together  *)
(* with the configuration and the capability vector: every well-formed       *)
(* record of a 200 feed whose enrichment succeeds is rendered once, whether  *)
(* or not an earlier tick rendered it, and nothing else of an earlier tick   *)
(* is seen in the events either.                                            *)
C22_TickDependsOnItsResponsesOnly ==
  pc = "done" => events = TickEvents(feed, iterations)

\* C22 for the ticks whose feed fetch was completed with a status
C22_AnsweredTickDependsOnItsResponsesOnly ==
  (pc = "done" /\ feed.ok) => events = TickEvents(feed, iterations)

\* a tick renders a record an earlier tick has rendered
C22_RenderedAgain ==
  /\ pc = "done"
  /\ \E i \in DOMAIN rendered : rendered[i].repository \in past
  /\ Len(events) = Len(rendered)

\* a tick whose feed fetch failed ends without any event
C22_FailedTickSilent == pc = "done" /\ ~feed.ok /\ events = <<>>

\* a tick whose feed fetch failed ends with the authorization error
C22_FailedTickUnauthorized ==
  pc = "done" /\ ~feed.ok /\ OneCriticalEvent(AUTH_ERROR_MSG)

\* the answer of the feed server to a request carrying If-Modified-Since: t
AnswerTo(t) ==
  IF upstream <= t
  THEN Resp(RESPONSE_CODE_NOT_MODIFIED, BadText, -1)
  ELSE Resp(RESPONSE_CODE_OK, Text(JArr(UpstreamFeed(upstream))), upstream)

\* the response comes from the feed server's own handling of the request
FromFeedServer(resp) ==
  resp.ok /\ (resp.status = RESPONSE_CODE_NOT_MODIFIED \/ resp.body.valid)

(* C23: the step of the feed fetch that is answered 200 sets the marker to   *)
(* the time of that response, before the body is decoded and before any      *)
(* enrichment is fetched; no later step of the tick changes it, so the tick  *)
(* ends with the marker advanced also when it ends with the critical event   *)
(* for a malformed feed or with every record dropped; and the next feed      *)
(* fetch is answered as a request carrying that time is.                    *)
C23_MarkerAdvancedBeforeDecoding ==
  /\ [][ (FetchStep /\ Answered(feed', RESPONSE_CODE_OK))
         => /\ last_mod' = feed'.filetime
            /\ pc' = "decode"
            /\ IsNull(json_root')
            /\ fetches' = 0 ]_vars
  /\ [][ (pc \in InTick) => last_mod' = last_mod ]_vars
  /\ [] ( (pc = "done" /\ Answered(feed, RESPONSE_CODE_OK)) => last_mod = feed.filetime )
  /\ [][ (FetchStep /\ FromFeedServer(feed')) => feed' = AnswerTo(stamp) ]_vars

(* a 200 was received and no tick has appended a record: the tick of the 200 *)
(* ended with the critical event or with every record dropped; the marker is *)
(* advanced all the same, and the fetch of this tick was answered 304        *)
C23_Witness ==
  /\ pc = "done"
  /\ Answered(feed, RESPONSE_CODE_NOT_MODIFIED)
  /\ stamp = upstream
  /\ last_mod = stamp
  /\ past = {}
  /\ events = <<>>

\* a tick answered 200 ends with the critical event and the marker advanced
C23_MalformedTick ==
  /\ pc = "done"
  /\ Answered(feed, RESPONSE_CODE_OK)
  /\ OneCriticalEvent(UNDEF_ERROR_MSG)
  /\ last_mod = feed.filetime
  /\ last_mod = upstream

\* a tick answered 200 ends with every record dropped and the marker advanced
C23_AllDroppedTick ==
  /\ pc = "done"
  /\ ArrayFeed(feed)
  /\ iterations # <<>>
  /\ Appended(iterations) = {}
  /\ events = <<>>
  /\ last_mod = feed.filetime
  /\ last_mod = upstream

====
